---- MODULE Spec2Model ----
(***************************************************************************)
(* Model of the frame-aware binary file splitter:                          *)
(*   binary_splitter_core.py  detect_frame_size, split_binary_file,        *)
(*                            reconstruct_binary_file, the __main__ block  *)
(*   widget.py                FileSplitterWorker (run, stop_operation)     *)
(* A file is the sequence of its bytes; the directory is a function from   *)
(* file names to contents; a file name is the sequence of its parts.       *)
(***************************************************************************)
EXTENDS Integers, Sequences, FiniteSets, TLC

\* ------------------------------------------------------------------ bounds
MaxLen == 4        \* longest source file of Spec, in bytes
MaxFrame == 3      \* largest frame_size_bytes of Spec
MaxBulk == 4       \* largest bulk cap of Spec, in bytes
MaxBuf == 5        \* longest file handed to detect_frame_size in SpecDetect
MaxHexLen == 4     \* longest sync_word_hex string
MaxChunk == 3      \* largest search_chunk_size of SpecDetect
MaxGuess == 3      \* largest max_frame_size_guess of SpecDetect
MaxCallerHexLen == 2  \* longest sync_word_hex string of SpecCallers
ProgressLen == 50  \* size in bytes of the large source file of SpecProgress
MaxIndex == 3      \* highest bulk index in the directory of SpecRecon
MaxBulkBytes == 2  \* longest bulk file in the directory of SpecRecon

\* ------------------------------------------------------------ small helpers
Min(a, b) == IF a < b THEN a ELSE b

\* The byte values the sources are made of: 0x11 and 0x14.
Bytes == {17, 20}

RECURSIVE SeqsUpTo(_, _)
SeqsUpTo(S, n) ==
    IF n = 0 THEN {<<>>}
    ELSE LET shorter == SeqsUpTo(S, n - 1)
         IN  shorter \cup {Append(s, x) : s \in {t \in shorter : Len(t) = n - 1}, x \in S}

\* file.read(n) at position pos (0-based): at most n bytes, fewer at end of file.
ReadAt(data, pos, n) ==
    SubSeq(data, pos + 1, Min(pos + n, Len(data)))

\* ------------------------------------------------------------- file names
DigitChar == <<"0", "1", "2", "3", "4", "5", "6", "7", "8", "9">>

RECURSIVE Decimal(_)
Decimal(n) ==
    IF n < 10 THEN <<DigitChar[n + 1]>>
    ELSE Append(Decimal(n \div 10), DigitChar[(n % 10) + 1])

RECURSIVE ZeroPad(_, _)
ZeroPad(s, width) == IF Len(s) >= width THEN s ELSE ZeroPad(<<"0">> \o s, width)

\* f"{n:03d}"
Format03d(n) == ZeroPad(Decimal(n), 3)

\* os.path.join(directory, f"{prefix}_{n:03d}.bin"), inside the one directory modelled
BulkFileName(prefix, n) == <<prefix, "_">> \o Format03d(n) \o <<".bin">>

\* the base name of the input file, extension stripped
InputBaseName == "capture"
DefaultPrefix == "output_bulk"
Prefixes == {DefaultPrefix, "part"}
ReconstructedFileName == <<"reconstructed_file.bin">>
None == <<>>

\* ------------------------------------------------------- detect_frame_size
HexDigits == <<"0", "1", "2", "3", "4", "5", "6", "7", "8", "9", "a", "b", "c", "d", "e", "f">>
IsHexDigit(c) == \E i \in 1..16 : HexDigits[i] = c
HexValue(c) == (CHOOSE i \in 1..16 : HexDigits[i] = c) - 1

\* bytes.fromhex accepts the string: pairs of hexadecimal digits
\* (the strings modelled hold no whitespace and no upper-case digit)
ValidHex(hex) == Len(hex) % 2 = 0 /\ \A i \in 1..Len(hex) : IsHexDigit(hex[i])
FromHex(hex) == [i \in 1..(Len(hex) \div 2) |-> 16 * HexValue(hex[2 * i - 1]) + HexValue(hex[2 * i])]

\* bytes.find(needle): the lowest 0-based index at which needle starts, or -1
RECURSIVE FindFrom(_, _, _)
FindFrom(haystack, needle, i) ==
    IF i + Len(needle) > Len(haystack) THEN -1
    ELSE IF SubSeq(haystack, i + 1, i + Len(needle)) = needle THEN i
    ELSE FindFrom(haystack, needle, i + 1)
Find(haystack, needle) == FindFrom(haystack, needle, 0)

\* what a call ends with: a returned integer, a returned None, or a raised exception
Returned(n) == [raised |-> "", is_none |-> FALSE, value |-> n]
ReturnedNone == [raised |-> "", is_none |-> TRUE, value |-> 0]
Raised(e) == [raised |-> e, is_none |-> FALSE, value |-> 0]
NotCalled == [raised |-> "not called", is_none |-> FALSE, value |-> 0]

\* a detector that reports the offset inside the second window, marker length left out
DetectFrameSizeWindowOffset(file, hex, chunk_size, max_guess) ==
    IF ~ValidHex(hex) THEN Raised("ValueError")
    ELSE LET sync_word_bytes == FromHex(hex) IN
    IF sync_word_bytes = <<>> THEN Raised("ValueError")
    ELSE LET chunk == ReadAt(file, 0, chunk_size)
             first_sync_index == Find(chunk, sync_word_bytes) IN
    IF first_sync_index = -1 THEN ReturnedNone
    ELSE LET search_chunk_next == ReadAt(file, first_sync_index + Len(sync_word_bytes), max_guess)
             second_sync_index == Find(search_chunk_next, sync_word_bytes) IN
    IF second_sync_index = -1 THEN ReturnedNone
    ELSE IF second_sync_index <= 0 THEN ReturnedNone
    ELSE Returned(second_sync_index)

\* a detector whose second read is not limited to max_frame_size_guess bytes
DetectFrameSizeUnlimitedRead(file, hex, chunk_size, max_guess) ==
    IF ~ValidHex(hex) THEN Raised("ValueError")
    ELSE LET sync_word_bytes == FromHex(hex) IN
    IF sync_word_bytes = <<>> THEN Raised("ValueError")
    ELSE LET chunk == ReadAt(file, 0, chunk_size)
             first_sync_index == Find(chunk, sync_word_bytes) IN
    IF first_sync_index = -1 THEN ReturnedNone
    ELSE LET search_chunk_next == ReadAt(file, first_sync_index + Len(sync_word_bytes), Len(file))
             second_sync_index == Find(search_chunk_next, sync_word_bytes)
             detected_frame_size == second_sync_index + Len(sync_word_bytes) IN
    IF second_sync_index = -1 THEN ReturnedNone
    ELSE IF detected_frame_size <= Len(sync_word_bytes) THEN ReturnedNone
    ELSE Returned(detected_frame_size)

DetectFrameSize(file, hex, chunk_size, max_guess) ==
    IF ~ValidHex(hex) THEN Raised("ValueError")
    ELSE LET sync_word_bytes == FromHex(hex) IN
    IF sync_word_bytes = <<>> THEN Raised("ValueError")
    ELSE LET chunk == ReadAt(file, 0, chunk_size)
             first_sync_index == Find(chunk, sync_word_bytes) IN
    IF first_sync_index = -1 THEN ReturnedNone
    ELSE LET search_chunk_next == ReadAt(file, first_sync_index + Len(sync_word_bytes), max_guess)
             second_sync_index == Find(search_chunk_next, sync_word_bytes)
             detected_frame_size == second_sync_index + Len(sync_word_bytes) IN
    IF second_sync_index = -1 THEN ReturnedNone
    ELSE IF detected_frame_size <= Len(sync_word_bytes) THEN ReturnedNone
    ELSE Returned(detected_frame_size)

VARIABLES
    \* the input file and the arguments of split_binary_file
    src, frame_size_bytes, bulk_size_bytes, output_prefix, progress_callback, stop_flag,
    \* split_binary_file's locals and its position
    pc, output_prefix_to_use, total_size, bytes_processed, infile_pos, frame_data,
    output_file, bulk_count, current_bulk_size,
    \* the world: the worker's stop flag, the directory, the open write handles,
    \* the printed lines, the values handed to the progress sink
    is_stopped, disk, open_files, stdout, progress,
    \* reconstruct_binary_file's argument, locals and position
    rpc, r_prefix, r_bulk_count, reconstructed_data,
    \* detect_frame_size's arguments and what it returned or raised
    sync_word_hex, search_chunk_size, max_frame_size_guess, detected,
    \* the caller: the command line's or the worker's arguments, the signals emitted
    caller, auto_detect_frame_size, args_frame_size, signals

splitArgs == <<src, frame_size_bytes, bulk_size_bytes, output_prefix, progress_callback, stop_flag>>
splitLocals == <<output_prefix_to_use, total_size, bytes_processed, infile_pos, frame_data,
                 output_file, bulk_count, current_bulk_size>>
reconVars == <<rpc, r_prefix, r_bulk_count, reconstructed_data>>
detectVars == <<sync_word_hex, search_chunk_size, max_frame_size_guess, detected>>
callerVars == <<caller, auto_detect_frame_size, args_frame_size, signals>>
vars == <<splitArgs, pc, splitLocals, is_stopped, disk, open_files, stdout, progress, reconVars,
          detectVars, callerVars>>

\* open(name, 'wb'): the file is created or truncated
Truncated(d, name) == [n \in (DOMAIN d) \cup {name} |-> IF n = name THEN <<>> ELSE d[n]]
\* handle.write(data) on the file called name
Written(d, name, data) == [d EXCEPT ![name] = @ \o data]

\* --------------------------------------------------------------- split
SplitStart ==
    /\ pc = "start"
    /\ bulk_count' = 1
    /\ current_bulk_size' = 0
    /\ output_prefix_to_use' =
         IF output_prefix = DefaultPrefix THEN InputBaseName ELSE output_prefix
    /\ total_size' = Len(src)
    /\ bytes_processed' = 0
    /\ infile_pos' = 0
    /\ output_file' = None
    /\ pc' = "poll"
    /\ UNCHANGED <<splitArgs, frame_data, is_stopped, disk, open_files, stdout, progress, reconVars, detectVars, callerVars>>

\* a cancelled run that returns without closing the open bulk
SplitPollLeavesOpen ==
    /\ pc = "poll"
    /\ IF stop_flag /\ is_stopped
       THEN /\ stdout' = Append(stdout, <<"Split operation stopped.">>)
            /\ pc' = "returned"
       ELSE /\ pc' = "read"
            /\ UNCHANGED stdout
    /\ UNCHANGED <<splitArgs, splitLocals, is_stopped, disk, open_files, progress, reconVars, detectVars, callerVars>>

SplitPoll ==
    /\ pc = "poll"
    /\ IF stop_flag /\ is_stopped
       THEN /\ stdout' = Append(stdout, <<"Split operation stopped.">>)
            /\ open_files' = IF output_file # None THEN open_files \ {output_file} ELSE open_files
            /\ pc' = "returned"
       ELSE /\ pc' = "read"
            /\ UNCHANGED <<stdout, open_files>>
    /\ UNCHANGED <<splitArgs, splitLocals, is_stopped, disk, progress, reconVars, detectVars, callerVars>>

\* a reader that fills the open bulk to its cap instead of reading whole frames
SplitReadFillsBulk ==
    /\ pc = "read"
    /\ LET room == bulk_size_bytes - current_bulk_size
       IN  frame_data' = ReadAt(src, infile_pos,
                                IF room > 0 THEN Min(frame_size_bytes, room) ELSE frame_size_bytes)
    /\ infile_pos' = infile_pos + Len(frame_data')
    /\ pc' = IF frame_data' = <<>> THEN "eof" ELSE "check"
    /\ UNCHANGED <<splitArgs, output_prefix_to_use, total_size, bytes_processed, output_file,
                   bulk_count, current_bulk_size, is_stopped, disk, open_files, stdout,
                   progress, reconVars, detectVars, callerVars>>

SplitRead ==
    /\ pc = "read"
    /\ frame_data' = ReadAt(src, infile_pos, frame_size_bytes)
    /\ infile_pos' = infile_pos + Len(frame_data')
    /\ pc' = IF frame_data' = <<>> THEN "eof" ELSE "check"
    /\ UNCHANGED <<splitArgs, output_prefix_to_use, total_size, bytes_processed, output_file,
                   bulk_count, current_bulk_size, is_stopped, disk, open_files, stdout,
                   progress, reconVars, detectVars, callerVars>>

\* a cap test that forgets the frame about to be written
SplitCheckIgnoresFrame ==
    /\ pc = "check"
    /\ pc' = IF output_file = None THEN "open"
             ELSE IF current_bulk_size > bulk_size_bytes THEN "close"
             ELSE "write"
    /\ UNCHANGED <<splitArgs, splitLocals, is_stopped, disk, open_files, stdout, progress, reconVars, detectVars, callerVars>>

SplitCheck ==
    /\ pc = "check"
    /\ pc' = IF output_file = None THEN "open"
             ELSE IF current_bulk_size + Len(frame_data) > bulk_size_bytes THEN "close"
             ELSE "write"
    /\ UNCHANGED <<splitArgs, splitLocals, is_stopped, disk, open_files, stdout, progress, reconVars, detectVars, callerVars>>

\* a rotation that opens the next bulk without closing the current one
SplitCloseBulkLeaksHandle ==
    /\ pc = "close"
    /\ pc' = "open"
    /\ UNCHANGED <<splitArgs, splitLocals, is_stopped, disk, open_files, stdout, progress,
                   reconVars, detectVars, callerVars>>

SplitCloseBulk ==
    /\ pc = "close"
    /\ open_files' = open_files \ {output_file}
    /\ pc' = "open"
    /\ UNCHANGED <<splitArgs, splitLocals, is_stopped, disk, stdout, progress, reconVars, detectVars, callerVars>>

SplitOpenBulk ==
    /\ pc = "open"
    /\ LET output_filename == BulkFileName(output_prefix_to_use, bulk_count)
       IN  /\ output_file' = output_filename
           /\ disk' = Truncated(disk, output_filename)
           /\ open_files' = open_files \cup {output_filename}
           /\ stdout' = Append(stdout, <<"Creating bulk file: ", output_filename>>)
    /\ current_bulk_size' = 0
    /\ bulk_count' = bulk_count + 1
    /\ pc' = "write"
    /\ UNCHANGED <<splitArgs, output_prefix_to_use, total_size, bytes_processed, infile_pos,
                   frame_data, is_stopped, progress, reconVars, detectVars, callerVars>>

\* ---- IEEE-754 binary64 arithmetic, on bit sequences (most significant bit first)
\* A positive double is a 53-bit significand m, 2^52 <= m < 2^53, times a power of two.
SignificandBits == 53

RECURSIVE BitsValue(_)
BitsValue(bits) ==
    IF bits = <<>> THEN 0 ELSE 2 * BitsValue(SubSeq(bits, 1, Len(bits) - 1)) + bits[Len(bits)]

RECURSIVE NatBits(_)
NatBits(n) == IF n = 0 THEN <<>> ELSE Append(NatBits(n \div 2), n % 2)

RECURSIVE Increment(_)
Increment(bits) ==
    IF bits = <<>> THEN <<1>>
    ELSE IF bits[Len(bits)] = 0 THEN [bits EXCEPT ![Len(bits)] = 1]
    ELSE Append(Increment(SubSeq(bits, 1, Len(bits) - 1)), 0)

\* the smallest k with b <= a * 2^k, for 1 <= a <= b
RECURSIVE NormalizeShift(_, _)
NormalizeShift(a, b) == IF a >= b THEN 0 ELSE 1 + NormalizeShift(2 * a, b)

\* long division: the next n quotient bits of r / b (r < b)
RECURSIVE QuotientBits(_, _, _)
QuotientBits(r, b, n) ==
    IF n = 0 THEN <<>>
    ELSE IF 2 * r >= b THEN <<1>> \o QuotientBits(2 * r - b, b, n - 1)
    ELSE <<0>> \o QuotientBits(2 * r, b, n - 1)

RECURSIVE RemainderAfter(_, _, _)
RemainderAfter(r, b, n) ==
    IF n = 0 THEN r
    ELSE IF 2 * r >= b THEN RemainderAfter(2 * r - b, b, n - 1)
    ELSE RemainderAfter(2 * r, b, n - 1)

\* float(a) / float(b) for integers 1 <= a <= b, rounded to nearest, ties to even:
\* the double bits * 2^(-(SignificandBits - 1) - shift)
TrueDivide(a, b) ==
    LET shift == NormalizeShift(a, b)
        first == a * (2 ^ shift) - b
        kept == <<1>> \o QuotientBits(first, b, SignificandBits - 1)
        rest == RemainderAfter(first, b, SignificandBits - 1)
        up == \/ 2 * rest > b
              \/ 2 * rest = b /\ kept[SignificandBits] = 1
    IN  [bits |-> IF up THEN Increment(kept) ELSE kept, shift |-> shift]

\* bits * c exactly, least significant bit first, for a small integer c
RECURSIVE TimesSmallLsb(_, _, _)
TimesSmallLsb(lsbFirst, c, carry) ==
    IF lsbFirst = <<>> THEN [i \in 1..Len(NatBits(carry)) |-> NatBits(carry)[Len(NatBits(carry)) + 1 - i]]
    ELSE LET t == Head(lsbFirst) * c + carry
         IN  <<t % 2>> \o TimesSmallLsb(Tail(lsbFirst), c, t \div 2)

Reversed(s) == [i \in 1..Len(s) |-> s[Len(s) + 1 - i]]

\* round the exact product back to SignificandBits bits, ties to even
RoundToDouble(bits) ==
    IF Len(bits) <= SignificandBits THEN [bits |-> bits, dropped |-> 0]
    ELSE LET kept == SubSeq(bits, 1, SignificandBits)
             tail == SubSeq(bits, SignificandBits + 1, Len(bits))
             sticky == \E i \in 2..Len(tail) : tail[i] = 1
             up == tail[1] = 1 /\ (sticky \/ kept[SignificandBits] = 1)
         IN  [bits |-> IF up THEN Increment(kept) ELSE kept,
              dropped |-> Len(bits) - SignificandBits]

\* int((bytes_processed / total_size) * 100), for 1 <= done <= total
ProgressPercentage(done, total) ==
    LET q == TrueDivide(done, total)
        product == RoundToDouble(Reversed(TimesSmallLsb(Reversed(q.bits), 100, 0)))
        \* the product is product.bits * 2^(product.dropped - (SignificandBits - 1) - q.shift)
        integerBits == Len(product.bits) + product.dropped - (SignificandBits - 1) - q.shift
    IN  IF integerBits <= 0 THEN 0 ELSE BitsValue(SubSeq(product.bits, 1, integerBits))

SplitWrite ==
    /\ pc = "write"
    /\ disk' = Written(disk, output_file, frame_data)
    /\ current_bulk_size' = current_bulk_size + Len(frame_data)
    /\ bytes_processed' = bytes_processed + Len(frame_data)
    /\ progress' = IF progress_callback /\ total_size > 0
                   THEN Append(progress, ProgressPercentage(bytes_processed', total_size))
                   ELSE progress
    /\ pc' = "poll"
    /\ UNCHANGED <<splitArgs, output_prefix_to_use, total_size, infile_pos, frame_data,
                   output_file, bulk_count, is_stopped, open_files, stdout, reconVars, detectVars, callerVars>>

SplitFinish ==
    /\ pc = "eof"
    /\ open_files' = IF output_file # None THEN open_files \ {output_file} ELSE open_files
    /\ stdout' = Append(stdout, <<"Binary file splitting complete.">>)
    /\ pc' = "done"
    /\ UNCHANGED <<splitArgs, splitLocals, is_stopped, disk, progress, reconVars, detectVars, callerVars>>

\* FileSplitterWorker.stop_operation, on the GUI thread while the worker splits
StopOperation ==
    /\ stop_flag
    /\ pc \in {"start", "poll", "read", "check", "close", "open", "write", "eof"}
    /\ ~is_stopped
    /\ is_stopped' = TRUE
    /\ UNCHANGED <<splitArgs, pc, splitLocals, disk, open_files, stdout, progress, reconVars, detectVars, callerVars>>

NextSplit ==
    \/ SplitStart
    \/ SplitPoll
    \/ SplitRead
    \/ SplitCheck
    \/ SplitCloseBulk
    \/ SplitOpenBulk
    \/ SplitWrite
    \/ SplitFinish
    \/ StopOperation

\* --------------------------------------------------------- reconstruction
\* a reconstruction that numbers the bulks from 0
ReconStartAtZero ==
    /\ pc \in {"idle", "done", "returned"}
    /\ rpc = "idle"
    /\ r_prefix' \in Prefixes \cup {InputBaseName}
    /\ r_bulk_count' = 0
    /\ reconstructed_data' = <<>>
    /\ rpc' = "loop"
    /\ UNCHANGED <<detectVars, callerVars, splitArgs, pc, splitLocals, is_stopped, disk, open_files, stdout, progress>>

ReconStart ==
    /\ pc \in {"idle", "done", "returned"}
    /\ rpc = "idle"
    /\ r_prefix' \in Prefixes \cup {InputBaseName}
    /\ r_bulk_count' = 1
    /\ reconstructed_data' = <<>>
    /\ rpc' = "loop"
    /\ UNCHANGED <<detectVars, callerVars, splitArgs, pc, splitLocals, is_stopped, disk, open_files, stdout, progress>>

\* a reconstruction that steps over a missing bulk while later ones exist
ReconLoopSkipsGap ==
    /\ rpc = "loop"
    /\ LET bulk_filename == BulkFileName(r_prefix, r_bulk_count)
           later == \E n \in DOMAIN disk : \E i \in 1..(r_bulk_count + Cardinality(DOMAIN disk)) :
                       i > r_bulk_count /\ n = BulkFileName(r_prefix, i)
       IN  IF bulk_filename \notin DOMAIN disk
           THEN /\ rpc' = IF later THEN "loop" ELSE "after"
                /\ r_bulk_count' = IF later THEN r_bulk_count + 1 ELSE r_bulk_count
                /\ UNCHANGED <<reconstructed_data, stdout>>
           ELSE /\ reconstructed_data' = reconstructed_data \o disk[bulk_filename]
                /\ stdout' = Append(stdout, <<"Reading bulk file: ", bulk_filename>>)
                /\ r_bulk_count' = r_bulk_count + 1
                /\ rpc' = "loop"
    /\ UNCHANGED <<detectVars, callerVars, splitArgs, pc, splitLocals, is_stopped, disk, open_files, progress, r_prefix>>

ReconLoop ==
    /\ rpc = "loop"
    /\ LET bulk_filename == BulkFileName(r_prefix, r_bulk_count)
       IN  IF bulk_filename \notin DOMAIN disk
           THEN /\ rpc' = "after"
                /\ UNCHANGED <<r_bulk_count, reconstructed_data, stdout>>
           ELSE /\ reconstructed_data' = reconstructed_data \o disk[bulk_filename]
                /\ stdout' = Append(stdout, <<"Reading bulk file: ", bulk_filename>>)
                /\ r_bulk_count' = r_bulk_count + 1
                /\ rpc' = "loop"
    /\ UNCHANGED <<detectVars, callerVars, splitArgs, pc, splitLocals, is_stopped, disk, open_files, progress, r_prefix>>

ReconWrite ==
    /\ rpc = "after"
    /\ IF reconstructed_data # <<>>
       THEN /\ disk' = [Truncated(disk, ReconstructedFileName)
                          EXCEPT ![ReconstructedFileName] = reconstructed_data]
            /\ stdout' = Append(stdout, <<"Reconstructed file saved as: ", ReconstructedFileName>>)
       ELSE /\ stdout' = Append(stdout, <<"No bulk files found to reconstruct.">>)
            /\ UNCHANGED disk
    /\ rpc' = "done"
    /\ UNCHANGED <<detectVars, callerVars, splitArgs, pc, splitLocals, is_stopped, open_files, progress,
                   r_prefix, r_bulk_count, reconstructed_data>>

NextRecon ==
    \/ ReconStart
    \/ ReconLoop
    \/ ReconWrite

\* ------------------------------------------------- Spec: split, then rebuild
EmptyDisk == [n \in {} |-> <<>>]

InitLocals ==
    /\ output_prefix_to_use = ""
    /\ total_size = 0
    /\ bytes_processed = 0
    /\ infile_pos = 0
    /\ frame_data = <<>>
    /\ output_file = None
    /\ bulk_count = 0
    /\ current_bulk_size = 0
    /\ is_stopped = FALSE
    /\ open_files = {}
    /\ stdout = <<>>
    /\ progress = <<>>
    /\ rpc = "idle"
    /\ r_prefix = ""
    /\ r_bulk_count = 0
    /\ reconstructed_data = <<>>

InitNoDetect ==
    /\ sync_word_hex = <<>>
    /\ search_chunk_size = 0
    /\ max_frame_size_guess = 0
    /\ detected = NotCalled

InitNoCaller ==
    /\ caller = "direct"
    /\ auto_detect_frame_size = FALSE
    /\ args_frame_size = 0
    /\ signals = <<>>

Init ==
    /\ src \in SeqsUpTo(Bytes, MaxLen)
    /\ frame_size_bytes \in 1..MaxFrame
    /\ bulk_size_bytes \in 1..MaxBulk
    /\ output_prefix \in Prefixes
    /\ progress_callback \in BOOLEAN
    /\ stop_flag \in BOOLEAN
    /\ pc = "start"
    /\ disk = EmptyDisk
    /\ InitLocals
    /\ InitNoDetect
    /\ InitNoCaller

Next == NextSplit \/ NextRecon

Spec == Init /\ [][Next]_vars

\* -------------------------------------- SpecDetect: detect_frame_size alone
HexChars == {"1", "4", "g"}

Detect ==
    /\ pc = "detect"
    /\ detected' = DetectFrameSize(src, sync_word_hex, search_chunk_size, max_frame_size_guess)
    /\ pc' = "detected"
    /\ UNCHANGED <<splitArgs, splitLocals, is_stopped, disk, open_files, stdout, progress,
                   reconVars, sync_word_hex, search_chunk_size, max_frame_size_guess, callerVars>>

InitDetect ==
    /\ src \in SeqsUpTo(Bytes, MaxBuf)
    /\ sync_word_hex \in SeqsUpTo(HexChars, MaxHexLen)
    /\ search_chunk_size \in 1..MaxChunk
    /\ max_frame_size_guess \in 1..MaxGuess
    /\ detected = NotCalled
    /\ pc = "detect"
    /\ frame_size_bytes = 0
    /\ bulk_size_bytes = 0
    /\ output_prefix = DefaultPrefix
    /\ progress_callback = FALSE
    /\ stop_flag = FALSE
    /\ disk = EmptyDisk
    /\ InitLocals
    /\ InitNoCaller

SpecDetect == InitDetect /\ [][Detect]_vars

\* ---------------------- SpecRecon: reconstruct_binary_file on any directory
BulkContents == SeqsUpTo(Bytes, MaxBulkBytes)
Directories ==
    UNION {[{BulkFileName("part", i) : i \in present} -> BulkContents] :
             present \in SUBSET (1..MaxIndex)}

InitRecon ==
    /\ disk \in Directories
    /\ pc = "idle"
    /\ src = <<>>
    /\ frame_size_bytes = 0
    /\ bulk_size_bytes = 0
    /\ output_prefix = DefaultPrefix
    /\ progress_callback = FALSE
    /\ stop_flag = FALSE
    /\ InitLocals
    /\ InitNoDetect
    /\ InitNoCaller

SpecRecon == InitRecon /\ [][NextRecon]_vars

\* ------------- SpecCallers: the command line and the GUI worker, then split
DefaultSearchChunkSize == 4096
DefaultMaxFrameSizeGuess == 65536

\* the __main__ block, from the parsed arguments to the call of split_binary_file
CliMain ==
    /\ caller = "cli"
    /\ pc = "main"
    /\ LET result == DetectFrameSize(src, sync_word_hex, search_chunk_size, max_frame_size_guess)
           truthy == result.raised = "" /\ ~result.is_none /\ result.value # 0
       IN  IF auto_detect_frame_size
           THEN /\ detected' = result
                /\ frame_size_bytes' = IF truthy THEN result.value ELSE args_frame_size
                /\ stdout' = Append(stdout,
                     IF result.raised # "" THEN <<"Error during frame size auto-detection">>
                     ELSE IF truthy THEN <<"Auto-detected frame size">>
                     ELSE <<"Frame size auto-detection failed.">>)
           ELSE /\ frame_size_bytes' = args_frame_size
                /\ UNCHANGED <<detected, stdout>>
    /\ progress_callback' = FALSE
    /\ stop_flag' = FALSE
    /\ pc' = "start"
    /\ UNCHANGED <<src, bulk_size_bytes, output_prefix, splitLocals, is_stopped, disk, open_files,
                   progress, reconVars, sync_word_hex, search_chunk_size, max_frame_size_guess,
                   callerVars>>

\* FileSplitterWorker.run, up to the call of split_binary_file or the except clause
WorkerRun ==
    /\ caller = "gui"
    /\ pc = "main"
    /\ LET result == DetectFrameSize(src, sync_word_hex, search_chunk_size, max_frame_size_guess)
           truthy == result.raised = "" /\ ~result.is_none /\ result.value # 0
       IN  IF auto_detect_frame_size
           THEN /\ detected' = result
                /\ IF truthy
                   THEN /\ frame_size_bytes' = result.value
                        /\ signals' = Append(signals, <<"frame_size_detected_signal">>)
                        /\ pc' = "start"
                   ELSE /\ signals' = Append(signals, <<"error_signal">>)
                        /\ pc' = "aborted"
                        /\ UNCHANGED frame_size_bytes
           ELSE /\ frame_size_bytes' = args_frame_size
                /\ pc' = "start"
                /\ UNCHANGED <<detected, signals>>
    /\ progress_callback' = TRUE
    /\ stop_flag' = TRUE
    /\ UNCHANGED <<src, bulk_size_bytes, output_prefix, splitLocals, is_stopped, disk, open_files,
                   stdout, progress, reconVars, sync_word_hex, search_chunk_size,
                   max_frame_size_guess, caller, auto_detect_frame_size, args_frame_size>>

\* FileSplitterWorker.run, after split_binary_file returned
WorkerFinished ==
    /\ caller = "gui"
    /\ pc \in {"done", "returned"}
    /\ signals' = Append(signals, <<"finished_signal">>)
    /\ pc' = "finished"
    /\ UNCHANGED <<splitArgs, splitLocals, is_stopped, disk, open_files, stdout, progress,
                   reconVars, detectVars, caller, auto_detect_frame_size, args_frame_size>>

InitCallers ==
    /\ caller \in {"cli", "gui"}
    /\ auto_detect_frame_size \in BOOLEAN
    /\ args_frame_size \in 1..MaxFrame
    /\ sync_word_hex \in SeqsUpTo(HexChars, MaxCallerHexLen)
    /\ search_chunk_size = DefaultSearchChunkSize
    /\ max_frame_size_guess = DefaultMaxFrameSizeGuess
    /\ detected = NotCalled
    /\ signals = <<>>
    /\ src \in SeqsUpTo(Bytes, MaxLen)
    /\ bulk_size_bytes \in 1..MaxBulk
    /\ output_prefix \in Prefixes
    /\ frame_size_bytes = 0
    /\ progress_callback = FALSE
    /\ stop_flag = FALSE
    /\ pc = "main"
    /\ disk = EmptyDisk
    /\ InitLocals

NextCallers == CliMain \/ WorkerRun \/ WorkerFinished \/ NextSplit

SpecCallers == InitCallers /\ [][NextCallers]_vars

\* ------------------------- SpecProgress: split_binary_file on a larger file
Pattern(n) == [i \in 1..n |-> IF i % 2 = 1 THEN 17 ELSE 20]

InitProgress ==
    /\ src \in {Pattern(0), Pattern(ProgressLen)}
    /\ frame_size_bytes \in 1..ProgressLen
    /\ bulk_size_bytes \in {MaxBulk, ProgressLen}
    /\ output_prefix = DefaultPrefix
    /\ progress_callback \in BOOLEAN
    /\ stop_flag \in BOOLEAN
    /\ pc = "start"
    /\ disk = EmptyDisk
    /\ InitLocals
    /\ InitNoDetect
    /\ InitNoCaller

SpecProgress == InitProgress /\ [][NextSplit]_vars

\* ============================================================== properties
\* the bulk files in the directory, and what they hold
BulkFiles == (DOMAIN disk) \ {ReconstructedFileName}
NumBulks == Cardinality(BulkFiles)
BulkAt(i) == disk[BulkFileName(output_prefix_to_use, i)]
BulksContiguous == \A i \in 1..NumBulks : BulkFileName(output_prefix_to_use, i) \in BulkFiles

RECURSIVE ConcatBulks(_)
ConcatBulks(i) == IF i = 0 THEN <<>> ELSE ConcatBulks(i - 1) \o BulkAt(i)

\* the source offset at which bulk i starts: the bytes of the bulks before it
StartOffset(i) == Len(ConcatBulks(i - 1))

SplitCompleted == pc = "done"
RebuiltFromSplit == SplitCompleted /\ rpc = "done" /\ r_prefix = output_prefix_to_use

\* C1 (as claimed): after a split that ran to completion and a reconstruction on the
\* bulk set's prefix, the output file exists and holds exactly the source bytes,
\* for every source, the empty one included.
RoundTripAnyLength ==
    RebuiltFromSplit =>
        /\ ReconstructedFileName \in DOMAIN disk
        /\ disk[ReconstructedFileName] = src

\* C1 (amended): the same, for a non-empty source; for an empty source the split
\* leaves no bulk file and the reconstruction writes no output file.
RoundTrip ==
    RebuiltFromSplit =>
        IF src # <<>>
        THEN /\ ReconstructedFileName \in DOMAIN disk
             /\ disk[ReconstructedFileName] = src
        ELSE DOMAIN disk = {}

RoundTripWitness ==
    /\ RebuiltFromSplit
    /\ Len(src) % frame_size_bytes # 0
    /\ Len(src) > frame_size_bytes
    /\ NumBulks >= 2
    /\ disk[ReconstructedFileName] = src

\* C2: every bulk file starts at a source offset that is a multiple of the frame
\* size and holds the source bytes from there on, and every frame written so far
\* (the short trailing one included) lies wholly inside one bulk file.
FrameAtomicity ==
    /\ BulksContiguous
    /\ \A i \in 1..NumBulks :
         /\ StartOffset(i) % frame_size_bytes = 0
         /\ BulkAt(i) = SubSeq(src, StartOffset(i) + 1, StartOffset(i) + Len(BulkAt(i)))
    /\ \A j \in 0..Len(src) :
         j * frame_size_bytes < StartOffset(NumBulks + 1) =>
           \E i \in 1..NumBulks :
             /\ StartOffset(i) <= j * frame_size_bytes
             /\ Min((j + 1) * frame_size_bytes, Len(src)) <= StartOffset(i) + Len(BulkAt(i))

FrameAtomicityWitness ==
    /\ SplitCompleted
    /\ NumBulks >= 2
    /\ bulk_size_bytes % frame_size_bytes # 0
    /\ bulk_size_bytes > frame_size_bytes

\* C3: every bulk file is at most bulk_size_bytes long, except a bulk that holds
\* exactly one frame which is itself longer than bulk_size_bytes.
SizeBound ==
    /\ BulksContiguous
    /\ \A i \in 1..NumBulks :
         \/ Len(BulkAt(i)) <= bulk_size_bytes
         \/ /\ Len(BulkAt(i)) = Min(frame_size_bytes, Len(src) - StartOffset(i))
            /\ Len(BulkAt(i)) > bulk_size_bytes

SizeBoundWitness ==
    /\ SplitCompleted
    /\ NumBulks >= 2
    /\ \E i \in 1..NumBulks :
         /\ Len(BulkAt(i)) > frame_size_bytes
         /\ Len(BulkAt(i)) <= bulk_size_bytes
         /\ Len(BulkAt(i)) + frame_size_bytes > bulk_size_bytes

BulkSet == [n \in BulkFiles |-> disk[n]]

CancelledState ==
    pc = "returned" =>
        /\ open_files = {}
        /\ BulksContiguous
        /\ NumBulks = bulk_count - 1
        /\ ConcatBulks(NumBulks) = SubSeq(src, 1, bytes_processed)
        /\ infile_pos = bytes_processed
        /\ \E N \in 0..Len(src) : bytes_processed = Min(N * frame_size_bytes, Len(src))

\* C4: the stop flag is polled before every frame's read; once a poll finds it set
\* the call returns normally with every bulk closed, the bulk files hold exactly the
\* frames written before that poll, and afterwards no frame is read or written and
\* no bulk file appears.
Cancellation ==
    /\ []CancelledState
    /\ [][(pc = "poll" /\ stop_flag /\ is_stopped) => pc' = "returned"]_vars
    /\ [][(pc # "read" /\ pc' = "read") => (pc = "poll" /\ ~(stop_flag /\ is_stopped))]_vars
    /\ [][pc = "returned" =>
            /\ pc' = "returned"
            /\ BulkSet' = BulkSet
            /\ infile_pos' = infile_pos
            /\ bytes_processed' = bytes_processed]_vars

CancellationWitness ==
    /\ pc = "returned"
    /\ bytes_processed > 0
    /\ bytes_processed < total_size
    /\ NumBulks >= 2

\* ---- detect_frame_size
SyncWord == FromHex(sync_word_hex)
DetectRan == pc = "detected" /\ ValidHex(sync_word_hex) /\ SyncWord # <<>>

\* the sync word starts at 0-based offset i of the file
OccursAt(i) ==
    /\ i + Len(SyncWord) <= Len(src)
    /\ SubSeq(src, i + 1, i + Len(SyncWord)) = SyncWord
Offsets == {i \in 0..Len(src) : OccursAt(i)}

\* C5 (as claimed): whenever the sync word, of length L, occurs at offset 0 and at an
\* offset P > L, detect_frame_size returns exactly P.
DetectionExactAnyBuffer ==
    DetectRan =>
        \A P \in Offsets :
            (0 \in Offsets /\ P > Len(SyncWord)) => detected = Returned(P)

\* C5 (amended): it returns exactly P when, besides, the sync word fits inside the first
\* search_chunk_size bytes, it occurs at no offset from L to P - 1, and P is at most
\* max_frame_size_guess (the occurrence at P starts within the bytes read after the
\* first occurrence).
DetectionExact ==
    DetectRan =>
        \A P \in Offsets :
            ( /\ 0 \in Offsets
              /\ P > Len(SyncWord)
              /\ Len(SyncWord) <= search_chunk_size
              /\ \A i \in Len(SyncWord)..(P - 1) : i \notin Offsets
              /\ P <= max_frame_size_guess )
            => detected = Returned(P)

DetectionExactWitness ==
    /\ DetectRan
    /\ Len(SyncWord) = 2
    /\ Offsets = {0, 3}
    /\ search_chunk_size = 2
    /\ max_frame_size_guess = 3
    /\ detected = Returned(3)

\* the combined search window: the first search_chunk_size bytes, and the
\* max_frame_size_guess bytes that follow the first occurrence found there
FirstInChunk == {i \in Offsets : i + Len(SyncWord) <= search_chunk_size}
FirstOffset == CHOOSE i \in FirstInChunk : \A j \in FirstInChunk : i <= j
WindowEnd ==
    IF FirstInChunk = {} THEN search_chunk_size
    ELSE LET after == FirstOffset + Len(SyncWord) + max_frame_size_guess
         IN  IF after > search_chunk_size THEN after ELSE search_chunk_size
InsideWindow == {i \in Offsets : i + Len(SyncWord) <= WindowEnd}

\* C9: when the sync word occurs exactly once inside the combined search window (the
\* first search_chunk_size bytes, and the max_frame_size_guess bytes that follow its
\* first occurrence there), detect_frame_size returns None and raises nothing.
DetectionAbsence ==
    (DetectRan /\ Cardinality(InsideWindow) = 1) => detected = ReturnedNone

DetectionAbsenceWitness ==
    /\ DetectRan
    /\ Cardinality(InsideWindow) = 1
    /\ FirstInChunk # {}
    /\ Cardinality(Offsets) >= 2
    /\ detected = ReturnedNone

\* ---- reconstruct_binary_file
BulkFound(i) == BulkFileName(r_prefix, i) \in DOMAIN disk
ReadLog == SelectSeq(stdout, LAMBDA line : line[1] = "Reading bulk file: ")
LastLine == stdout[Len(stdout)]

RECURSIVE ConcatFound(_)
ConcatFound(k) == IF k = 0 THEN <<>> ELSE ConcatFound(k - 1) \o disk[BulkFileName(r_prefix, k)]

\* C7: the output file is written exactly when at least one bulk file was found,
\* whatever the bulk files hold; "no bulk files found" is reported exactly when none was.
WriteIffBulkFound ==
    rpc = "done" =>
        /\ (ReconstructedFileName \in DOMAIN disk) <=> BulkFound(1)
        /\ (LastLine = <<"No bulk files found to reconstruct.">>) <=> ~BulkFound(1)

\* C8: the bulks are read in index order from 1 up to the first missing index k + 1;
\* the bytes gathered are the bulks 1..k in order, and no bulk above the gap is read.
GapTruncation ==
    rpc \in {"after", "done"} =>
        \E k \in 0..Cardinality(DOMAIN disk) :
            /\ \A j \in 1..k : BulkFound(j)
            /\ ~BulkFound(k + 1)
            /\ reconstructed_data = ConcatFound(k)
            /\ Len(ReadLog) = k
            /\ \A j \in 1..k : ReadLog[j][2] = BulkFileName(r_prefix, j)

GapTruncationWitness ==
    /\ rpc = "done"
    /\ BulkFound(1)
    /\ ~BulkFound(2)
    /\ BulkFound(3)
    /\ disk[BulkFileName(r_prefix, 1)] # <<>>
    /\ disk[BulkFileName(r_prefix, 3)] # <<>>
    /\ reconstructed_data = disk[BulkFileName(r_prefix, 1)]

\* ---- the callers
\* C6: in every caller, when auto-detection is requested and detect_frame_size
\* returns None, the caller goes on to split_binary_file with the frame size it was given.
AutoDetectFallback ==
    (auto_detect_frame_size /\ pc # "main" /\ detected = ReturnedNone) =>
        /\ pc # "aborted"
        /\ frame_size_bytes = args_frame_size

\* ---- progress
FramesWritten == (bytes_processed + frame_size_bytes - 1) \div frame_size_bytes

\* C10: with a progress sink and a source of T > 0 bytes, the sink has been called once
\* per frame written, the i-th time with floor(100 * (bytes written after frame i) / T);
\* the values never decrease, lie in 0..100 and end with 100 when the run completes.
\* For T = 0 the sink is never called.
ProgressReports ==
    (progress_callback /\ pc \notin {"start", "main", "aborted"}) =>
        IF total_size = 0 THEN progress = <<>>
        ELSE /\ Len(progress) = FramesWritten
             /\ \A i \in 1..Len(progress) :
                  /\ progress[i] = (100 * Min(i * frame_size_bytes, total_size)) \div total_size
                  /\ progress[i] \in 0..100
                  /\ i > 1 => progress[i - 1] <= progress[i]
             /\ pc = "done" => progress[Len(progress)] = 100

\* ---- the output bulk handle
CreationLog == SelectSeq(stdout, LAMBDA line : line[1] = "Creating bulk file: ")

ExclusiveHandleState ==
    /\ Cardinality(open_files) <= 1
    /\ open_files # {} => open_files = {output_file}
    /\ \A i \in 1..Len(CreationLog) :
         CreationLog[i][2] = BulkFileName(output_prefix_to_use, i)
    /\ pc \notin {"start", "main", "aborted", "idle", "detect", "detected"} =>
         Len(CreationLog) = bulk_count - 1
    /\ pc \in {"done", "returned", "finished"} => open_files = {}

\* C11: at most one output bulk handle is open at any time; a bulk is opened only
\* when no handle is open (the previous bulk's was closed first); the bulks are opened
\* in index order 1, 2, 3, ... with no index skipped or reused; and no handle is open
\* once the call has returned, at end of stream or on cancellation.
ExclusiveBulkHandle ==
    /\ []ExclusiveHandleState
    /\ [][(open_files' \ open_files) # {} =>
            /\ open_files = {}
            /\ open_files' = {BulkFileName(output_prefix_to_use, bulk_count)}
            /\ BulkFileName(output_prefix_to_use, bulk_count) \notin DOMAIN disk
            /\ bulk_count' = bulk_count + 1]_vars

ExclusiveBulkHandleWitness ==
    /\ pc = "write"
    /\ bulk_count = 4
    /\ open_files = {BulkFileName(output_prefix_to_use, 3)}
    /\ BulkFileName(output_prefix_to_use, 1) \in DOMAIN disk
    /\ BulkFileName(output_prefix_to_use, 2) \in DOMAIN disk

====
